---- MODULE Spec2Model ----
(***************************************************************************)
(* AcadPlanner (src/deepseek_jsx_20250825_e98532.jsx): the course          *)
(* collection held by AcadPlannerApp and edited through the Planner        *)
(* (addCourse, update, remove gated by validateCourse), the weighted index *)
(* calcIRA, the persisted snapshot, the toasts with their timers, and the  *)
(* tabs with the exit animation of the section that leaves.                *)
(*                                                                         *)
(* Representation.  trim() and the regular expressions are computed on the *)
(* UTF-16 code units of a string, chars(s).  An object o is the pair of    *)
(* o.keys, its own property names in the order JavaScript lists them, and  *)
(* o.at, the function from these names to their values; an absent property *)
(* (undefined) is a name outside DOMAIN o.at.  nota : number | "" is <<>>  *)
(* for "" and <<n>> for the number n.  Numbers are integers.  The quotient *)
(* returned by calcIRA is the fraction in lowest terms [num, den].         *)
(***************************************************************************)
EXTENDS Integers, Sequences, FiniteSets, TLC

VARIABLES
    courses,    \* useState<Course[]> of AcadPlannerApp
    ira,        \* useMemo(() => calcIRA(courses), [courses])
    storage,    \* localStorage[storeKey]
    usedIds,    \* history: every id a record of the collection has held
    nops,       \* history: number of handler invocations so far
    last,       \* history: the last handler invocation and its outcome
    props,      \* the courses prop the Planner on the page was rendered with
    notifications,  \* useState<Notification[]> of AcadPlannerApp
    timers,     \* pending setTimeout callbacks of addNotification, oldest first
    mounted,    \* "no" before the first render, then "yes", or "crashed"
    tab,        \* useState("home"): the tab chosen
    shown       \* the section on the page: tab's, or the one still leaving

vars == <<courses, ira, storage, usedIds, nops, last, props, notifications,
          timers, mounted, tab, shown>>

(***************************************************************************)
(* Bounds                                                                  *)
(***************************************************************************)
MaxOps == 2        \* handler invocations in one behaviour
MaxIRALen == 3     \* longest collection handed to calcIRA in SpecIRA

\* Strings uuid() can return ("" is its result for Math.random() = 0).
IdSpace == <<"a", "b", "c", "d", "", "e", "f", "g">>

\* Stands where a handler run involves no id; uuid() returns no such string.
NoId == "-"

(***************************************************************************)
(* Strings                                                                 *)
(***************************************************************************)
\* WhiteSpace and LineTerminator of ECMAScript, which trim() strips and \s
\* matches: TAB, LF, VT, FF, CR, SP, NBSP, U+1680, U+2000..U+200A, LS, PS,
\* U+202F, U+205F, U+3000, U+FEFF.
WhiteSpace ==
    {9, 10, 11, 12, 13, 32, 160, 5760} \cup (8192..8202)
        \cup {8232, 8233, 8239, 8287, 12288, 65279}

\* \d: 0..9
Digits == 48..57

RECURSIVE trimStart(_)
trimStart(s) ==
    IF s # <<>> /\ Head(s) \in WhiteSpace THEN trimStart(Tail(s)) ELSE s

RECURSIVE trimEnd(_)
trimEnd(s) ==
    IF s # <<>> /\ s[Len(s)] \in WhiteSpace
    THEN trimEnd(SubSeq(s, 1, Len(s) - 1))
    ELSE s

\* String.prototype.trim, on the code units
trim(s) == trimEnd(trimStart(s))

\* The code units of each string the model handles: names, terms, form fields
\* and property names (the whitespace-only name is a space, a tab and a
\* no-break space).
chars(s) ==
    CASE s = "id" ->
           <<105, 100>>
      [] s = "nome" ->
           <<110, 111, 109, 101>>
      [] s = "ch" ->
           <<99, 104>>
      [] s = "nota" ->
           <<110, 111, 116, 97>>
      [] s = "periodo" ->
           <<112, 101, 114, 105, 111, 100, 111>>
      [] s = "status" ->
           <<115, 116, 97, 116, 117, 115>>
      [] s = "" ->
           <<>>
      [] s = "Química Inorgânica (128h)" ->
           <<81, 117, 237, 109, 105, 99, 97, 32, 73, 110, 111, 114, 103, 226, 110, 105, 99, 97, 32, 40, 49, 50, 56, 104, 41>>
      [] s = "Química Analítica (CLAE)" ->
           <<81, 117, 237, 109, 105, 99, 97, 32, 65, 110, 97, 108, 237, 116, 105, 99, 97, 32, 40, 67, 76, 65, 69, 41>>
      [] s = "Termodinâmica de Processos" ->
           <<84, 101, 114, 109, 111, 100, 105, 110, 226, 109, 105, 99, 97, 32, 100, 101, 32, 80, 114, 111, 99, 101, 115, 115, 111, 115>>
      [] s = "Fis" ->
           <<70, 105, 115>>
      [] s = " C " ->
           <<32, 67, 32>>
      [] s = " \t " ->
           <<32, 9, 160>>
      [] s = "2025.1" ->
           <<50, 48, 50, 53, 46, 49>>
      [] s = "2025.2" ->
           <<50, 48, 50, 53, 46, 50>>
      [] s = "2026.1" ->
           <<50, 48, 50, 54, 46, 49>>
      [] s = "2025.3" ->
           <<50, 48, 50, 53, 46, 51>>
      [] s = "Ana" ->
           <<65, 110, 97>>
      [] s = "oi" ->
           <<111, 105>>
      [] s = "a@b.co" ->
           <<97, 64, 98, 46, 99, 111>>
      [] s = "ana" ->
           <<97, 110, 97>>
      [] s = "keys" ->
           <<107, 101, 121, 115>>
      [] s = "1" ->
           <<49>>
      [] s = "2" ->
           <<50>>
      [] s = "10" ->
           <<49, 48>>
      [] s = "01" ->
           <<48, 49>>
      [] s = "0" ->
           <<48>>
      [] s = "3" ->
           <<51>>
      [] s = "-1" ->
           <<45, 49>>
      [] s = "1.5" ->
           <<49, 46, 53>>
      [] s = "4294967294" ->
           <<52, 50, 57, 52, 57, 54, 55, 50, 57, 52>>
      [] s = "4294967295" ->
           <<52, 50, 57, 52, 57, 54, 55, 50, 57, 53>>

\* periodo.match(/^\d{4}\.[12]$/) is not null
matchPeriodo(s) ==
    /\ Len(s) = 6
    /\ \A i \in 1..4 : s[i] \in Digits
    /\ s[5] = 46
    /\ s[6] \in {49, 50}

\* email.match(/^[^\s@]+@[^\s@]+\.[^\s@]+$/) is not null
matchEmail(s) ==
    \E i \in 1..Len(s), j \in 1..Len(s) :
        /\ 1 < i /\ i + 1 < j /\ j < Len(s)
        /\ s[i] = 64
        /\ s[j] = 46
        /\ \A k \in (1..Len(s)) \ {i, j} : s[k] \notin WhiteSpace \cup {64}

(***************************************************************************)
(* Course records                                                          *)
(***************************************************************************)
Fields == {"id", "nome", "ch", "nota", "periodo", "status"}
FieldOrder == <<"id", "nome", "ch", "nota", "periodo", "status">>

Cursada == "Cursada"
EmAndamento == "Em andamento"
ACursar == "A cursar"

\* The code units of "4294967294", the text of the largest array index
\* (2^32 - 2).
MaxArrayIndex == <<52, 50, 57, 52, 57, 54, 55, 50, 57, 52>>

\* s < t as numbers, for two decimal texts without leading zeros.
numLess(s, t) ==
    \/ Len(s) < Len(t)
    \/ /\ Len(s) = Len(t)
       /\ \E i \in 1..Len(s) :
            /\ s[i] < t[i]
            /\ \A j \in 1..(i - 1) : s[j] = t[j]

\* A property name that is an array index: the canonical decimal text of an
\* integer in 0 .. 2^32 - 2 (digits only, no leading zero).
isArrayIndex(k) ==
    LET s == chars(k)
    IN  /\ Len(s) >= 1
        /\ \A i \in 1..Len(s) : s[i] \in Digits
        /\ Len(s) > 1 => s[1] # 48
        /\ ~numLess(MaxArrayIndex, s)

\* The order in which an ordinary object lists its own property names, given
\* the order in which they were created: the array indices in ascending
\* numeric order, then the other names in creation order.
ownKeys(created) ==
    LET indices == SelectSeq(created, isArrayIndex)
    IN  IF indices = <<>> THEN created
        ELSE SortSeq(indices, LAMBDA a, b : numLess(chars(a), chars(b)))
                \o SelectSeq(created, LAMBDA k : ~isArrayIndex(k))

\* The object literal { id, nome, ch, nota, periodo, status }
Course(id, nome, ch, nota, periodo, status) ==
    [keys |-> ownKeys(FieldOrder),
     at |-> [id |-> id, nome |-> nome, ch |-> ch, nota |-> nota,
             periodo |-> periodo, status |-> status]]

\* The object literal { f: v }
Patch(f, v) == [keys |-> <<f>>, at |-> [x \in {f} |-> v]]

\* The value spread from undefined: no properties.
Undefined == [keys |-> <<>>, at |-> <<>>]

\* The own property names of an object, in the order JavaScript lists them.
Keys(o) == o.keys

\* Object spread {...a, ...b}: b's properties win, a's are kept otherwise; a's
\* names are created first, b's new names after them.
Spread(a, b) ==
    [keys |-> ownKeys(Keys(a) \o SelectSeq(Keys(b), LAMBDA k : k \notin DOMAIN a.at)),
     at |-> [f \in (DOMAIN a.at) \cup (DOMAIN b.at) |->
                IF f \in DOMAIN b.at THEN b.at[f] ELSE a.at[f]]]

\* seedData, its three ids being three results of uuid()
seedData(i1, i2, i3) ==
    << Course(i1, "Química Inorgânica (128h)", 128, <<7>>, "2025.1", Cursada),
       Course(i2, "Química Analítica (CLAE)", 64, <<8>>, "2025.2", EmAndamento),
       Course(i3, "Termodinâmica de Processos", 64, <<>>, "2026.1", ACursar) >>

(***************************************************************************)
(* Index calculator                                                        *)
(***************************************************************************)
Abs(n) == IF n < 0 THEN -n ELSE n

RECURSIVE Gcd(_, _)
Gcd(a, b) == IF b = 0 THEN a ELSE Gcd(b, a % b)

\* The number p / q (q # 0), in lowest terms with a positive denominator.
Quotient(p, q) ==
    LET g == Gcd(Abs(p), Abs(q))
        sgn == IF q < 0 THEN -1 ELSE 1
    IN  [num |-> sgn * (p \div g), den |-> sgn * (q \div g)]

Zero == [num |-> 0, den |-> 1]

\* Array.prototype.reduce((acc, x) => acc + x, acc) over the terms xs
RECURSIVE reduceSum(_, _)
reduceSum(xs, acc) ==
    IF xs = <<>> THEN acc ELSE reduceSum(Tail(xs), acc + Head(xs))

calcIRA_AllStatuses(cs) ==
    LET concl == SelectSeq(cs, LAMBDA c : c.at.nota # <<>>)
        somaP == reduceSum([i \in 1..Len(concl) |-> concl[i].at.nota[1] * concl[i].at.ch], 0)
        somaCH == reduceSum([i \in 1..Len(concl) |-> concl[i].at.ch], 0)
    IN  IF somaCH = 0 THEN Zero ELSE Quotient(somaP, somaCH)

calcIRA(cs) ==
    LET concl == SelectSeq(cs, LAMBDA c : c.at.status # ACursar /\ c.at.nota # <<>>)
        somaP == reduceSum([i \in 1..Len(concl) |-> concl[i].at.nota[1] * concl[i].at.ch], 0)
        somaCH == reduceSum([i \in 1..Len(concl) |-> concl[i].at.ch], 0)
    IN  IF somaCH = 0 THEN Zero ELSE Quotient(somaP, somaCH)

(***************************************************************************)
(* Persistence: the storage slot, JSON.stringify and JSON.parse            *)
(*                                                                         *)
(* The slot holds no item (getItem returns null) or a text.  A text is the *)
(* empty string, a text JSON.parse rejects, the text null, or the text of  *)
(* an array of objects, kept as its items: each object is the sequence of  *)
(* its <<key, value>> pairs in the order they are written.                 *)
(***************************************************************************)
NoItem == [form |-> "absent"]
EmptyText == [form |-> "empty"]
MalformedText == [form |-> "malformed"]
NullText == [form |-> "null"]
ArrayText(items) == [form |-> "array", items |-> items]

\* One object as its <<key, value>> pairs, in property order.
stringifyCourse(c) == [i \in 1..Len(Keys(c)) |-> <<Keys(c)[i], c.at[Keys(c)[i]]>>]

JSONstringify_Reversed(cs) ==
    ArrayText([i \in 1..Len(cs) |-> stringifyCourse(cs[Len(cs) + 1 - i])])

JSONstringify(cs) == ArrayText([i \in 1..Len(cs) |-> stringifyCourse(cs[i])])

\* One object from its pairs: each key is created where it is first written
\* and holds the value written last.
parseCourse(t) ==
    LET firsts == SelectSeq([i \in 1..Len(t) |-> i],
                            LAMBDA i : \A j \in 1..(i - 1) : t[j][1] # t[i][1])
        lastAt(f) == CHOOSE i \in 1..Len(t) :
                        /\ t[i][1] = f
                        /\ \A j \in (i + 1)..Len(t) : t[j][1] # f
    IN  [keys |-> ownKeys([n \in 1..Len(firsts) |-> t[firsts[n]][1]]),
         at |-> [f \in {t[i][1] : i \in 1..Len(t)} |-> t[lastAt(f)][2]]]

\* JSON.parse: the array, the value null, or a SyntaxError thrown.
JSONparse(text) ==
    CASE text.form = "array" ->
            [kind |-> "array",
             value |-> [i \in 1..Len(text.items) |-> parseCourse(text.items[i])]]
      [] text.form = "null" -> [kind |-> "null", value |-> <<>>]
      [] OTHER -> [kind |-> "SyntaxError", value |-> <<>>]

(***************************************************************************)
(* Validation                                                              *)
(***************************************************************************)
MsgNome == "Nome da disciplina é obrigatório"
MsgCh == "Carga horária deve ser maior que zero"
MsgNota == "Nota deve estar entre 0 e 10 para disciplinas cursadas"
MsgPeriodo == "Período deve estar no formato AAAA.S (ex: 2025.1)"
MsgAdded == "Disciplina adicionada com sucesso"
MsgUpdated == "Disciplina atualizada com sucesso"
MsgRemoved == "Disciplina removida com sucesso"

\* What a call of validateCourse does: it returns true (ok), returns false after
\* one addNotification(message, "error"), or throws a TypeError on reading a
\* property of undefined (threw).
Valid == [ok |-> TRUE, threw |-> FALSE, notes |-> <<>>]
Invalid(msg) == [ok |-> FALSE, threw |-> FALSE, notes |-> << <<msg, "error">> >>]
TypeError == [ok |-> FALSE, threw |-> TRUE, notes |-> <<>>]

notaRejected_UnsetOnly(course) ==
    /\ "status" \in DOMAIN course.at
    /\ course.at.status = Cursada
    /\ "nota" \in DOMAIN course.at
    /\ course.at.nota = <<>>

\* course.status === "Cursada" && (course.nota === "" || Number(course.nota) < 0
\*   || Number(course.nota) > 10); Number(undefined) is NaN, which compares false.
notaRejected(course) ==
    /\ "status" \in DOMAIN course.at
    /\ course.at.status = Cursada
    /\ "nota" \in DOMAIN course.at
    /\ \/ course.at.nota = <<>>
       \/ course.at.nota[1] < 0
       \/ course.at.nota[1] > 10

validateCourse_ChNegativeOnly(course) ==
    IF "nome" \notin DOMAIN course.at THEN TypeError
    ELSE IF trim(chars(course.at.nome)) = <<>> THEN Invalid(MsgNome)
    ELSE IF "ch" \in DOMAIN course.at /\ course.at.ch < 0 THEN Invalid(MsgCh)
    ELSE IF notaRejected(course) THEN Invalid(MsgNota)
    ELSE IF "periodo" \notin DOMAIN course.at THEN TypeError
    ELSE IF ~matchPeriodo(chars(course.at.periodo)) THEN Invalid(MsgPeriodo)
    ELSE Valid

validateCourse_TermBeforeGrade(course) ==
    IF "nome" \notin DOMAIN course.at THEN TypeError
    ELSE IF trim(chars(course.at.nome)) = <<>> THEN Invalid(MsgNome)
    ELSE IF "ch" \in DOMAIN course.at /\ course.at.ch <= 0 THEN Invalid(MsgCh)
    ELSE IF "periodo" \notin DOMAIN course.at THEN TypeError
    ELSE IF ~matchPeriodo(chars(course.at.periodo)) THEN Invalid(MsgPeriodo)
    ELSE IF notaRejected(course) THEN Invalid(MsgNota)
    ELSE Valid

validateCourse(course) ==
    IF "nome" \notin DOMAIN course.at THEN TypeError
    ELSE IF trim(chars(course.at.nome)) = <<>> THEN Invalid(MsgNome)
    ELSE IF "ch" \in DOMAIN course.at /\ course.at.ch <= 0 THEN Invalid(MsgCh)
    ELSE IF notaRejected(course) THEN Invalid(MsgNota)
    ELSE IF "periodo" \notin DOMAIN course.at THEN TypeError
    ELSE IF ~matchPeriodo(chars(course.at.periodo)) THEN Invalid(MsgPeriodo)
    ELSE Valid


(***************************************************************************)
(* Inputs                                                                  *)
(***************************************************************************)
\* Values of the form state novo when "Adicionar" is clicked.  novo.id is
\* overwritten by addCourse, so one value of it is enumerated.
NovoValid ==
    { Course("a", "Fis", 32, <<>>, "2026.1", ACursar),
      Course("a", " C ", 64, <<8>>, "2025.1", Cursada),
      Course("a", "Fis", 32, <<11>>, "2025.2", EmAndamento) }

NovoInvalid ==
    { Course("a", " \t ", 64, <<>>, "2025.1", ACursar),
      Course("a", "Fis", 0, <<5>>, "2025.1", Cursada),
      Course("a", "Fis", 64, <<>>, "2025.1", Cursada),
      Course("a", "Fis", 64, <<7>>, "2025.3", Cursada),
      Course("a", "", 0, <<>>, "2025.3", Cursada),
      Course("a", "Fis", 0, <<11>>, "2025.3", Cursada),
      Course("a", "Fis", 64, <<11>>, "2025.3", Cursada) }

NovoSet == NovoValid \cup NovoInvalid

\* Patches the inputs of a table row pass to update: one property, never id.
PatchSet ==
    { Patch("nome", ""),
      Patch("ch", 0),
      Patch("nota", <<11>>),
      Patch("nota", <<>>),
      Patch("nota", <<-1>>),
      Patch("nota", <<9>>),
      Patch("periodo", "2025.3"),
      Patch("status", Cursada),
      Patch("status", EmAndamento) }

(***************************************************************************)
(* Course store                                                            *)
(***************************************************************************)
Ids(cs) == {cs[i].at.id : i \in 1..Len(cs)}

\* Array.prototype.find: the first element with the id, or undefined.
find(cs, id) ==
    IF \E i \in 1..Len(cs) : cs[i].at.id = id
    THEN cs[CHOOSE i \in 1..Len(cs) :
                /\ cs[i].at.id = id
                /\ \A j \in 1..(i - 1) : cs[j].at.id # id]
    ELSE Undefined

\* The first string of IdSpace that is not among known.
FirstFree(known) ==
    LET free == {i \in 1..Len(IdSpace) : IdSpace[i] \notin known}
    IN  IF free = {} THEN {}
        ELSE {IdSpace[CHOOSE i \in free : \A j \in free : i <= j]}

\* const uuid = () => Math.random().toString(36).slice(2): some string;
\* nothing relates one result to another.  Ids are only compared for equality,
\* with the ids in known, so the results that differ in effect are each id of
\* known and one string outside it.
uuid(known) == known \cup FirstFree(known)

\* The Planner on the page gets the collection cs as its courses prop when it
\* is the section of the chosen tab; a section that is leaving (exit animation
\* under AnimatePresence) is kept as last rendered.
rerender(cs) ==
    props' = IF tab = "planejamento" /\ shown = "planejamento" THEN cs ELSE props

\* setCourses(next), the render it causes (useMemo, the Planner's courses prop)
\* and the persisting effect.
setCourses(next) ==
    /\ courses' = next
    /\ ira' = calcIRA(next)
    /\ storage' = JSONstringify(next)
    /\ usedIds' = usedIds \cup Ids(next)
    /\ rerender(next)

toasts == <<notifications, timers>>

NoteIds ==
    {notifications[i].id : i \in 1..Len(notifications)}
        \cup {timers[i] : i \in 1..Len(timers)}

\* addNotification: a toast under a new id, and the timer that will drop it.
\* The timers all wait the same 5000 ms, so they fire in the order set.
addNotification(message, type) ==
    \E id \in uuid(NoteIds) :
        /\ notifications' =
              Append(notifications, [id |-> id, message |-> message, type |-> type])
        /\ timers' = Append(timers, id)

\* The addNotification calls of one validateCourse run (none when it threw).
notify(notes) ==
    IF notes = <<>> THEN UNCHANGED toasts
    ELSE addNotification(notes[1][1], notes[1][2])

\* The history record of one handler invocation: its arguments (id, arg), its
\* outcome, the notifications it raised, and the state it started from.
Record(op, id, arg, result, notes) ==
    [op |-> op, id |-> id, arg |-> arg, result |-> result,
     notes |-> notes, before |-> courses, iraBefore |-> ira,
     usedBefore |-> usedIds, seen |-> props, stored |-> storage,
     prev |-> [op |-> last.op, id |-> last.id, result |-> last.result,
               before |-> last.before]]

outcome(v) == IF v.threw THEN "threw" ELSE IF v.ok THEN "ok" ELSE "rejected"

\* A handler that ends without setCourses: the collection stays; a notification
\* it raised renders the application again.
noChange(notes) ==
    /\ UNCHANGED <<courses, ira, storage, usedIds>>
    /\ IF notes = <<>> THEN UNCHANGED props ELSE rerender(courses)

frame == <<mounted, tab, shown>>

addCourse(novo) ==
    /\ mounted = "yes"
    /\ shown = "planejamento"
    /\ nops < MaxOps
    /\ nops' = nops + 1
    /\ UNCHANGED frame
    /\ LET v == validateCourse(novo) IN
       IF ~v.ok
       THEN /\ noChange(v.notes)
            /\ notify(v.notes)
            /\ last' = Record("add", NoId, novo, outcome(v), v.notes)
       ELSE \E id \in uuid(usedIds) :
            /\ setCourses(<<Spread(novo, Patch("id", id))>> \o props)
            /\ addNotification(MsgAdded, "success")
            /\ last' = Record("add", id, novo, "ok",
                              << <<MsgAdded, "success">> >>)

\* courses.map(c => c.id === id ? updatedCourse : c)
updateMap(cs, id, updatedCourse) ==
    [i \in 1..Len(cs) |-> IF cs[i].at.id = id THEN updatedCourse ELSE cs[i]]

update(id, patch) ==
    /\ mounted = "yes"
    /\ shown = "planejamento"
    /\ nops < MaxOps
    /\ nops' = nops + 1
    /\ UNCHANGED frame
    /\ LET updatedCourse == Spread(find(props, id), patch)
           v == validateCourse(updatedCourse)
       IN  IF ~v.ok
           THEN /\ noChange(v.notes)
                /\ notify(v.notes)
                /\ last' = Record("update", id, patch, outcome(v), v.notes)
           ELSE /\ setCourses(updateMap(props, id, updatedCourse))
                /\ addNotification(MsgUpdated, "success")
                /\ last' = Record("update", id, patch, "ok",
                                  << <<MsgUpdated, "success">> >>)

\* courses.filter(c => c.id !== id)
removeFilter(cs, id) == SelectSeq(cs, LAMBDA c : c.at.id # id)

remove(id) ==
    /\ mounted = "yes"
    /\ shown = "planejamento"
    /\ nops < MaxOps
    /\ nops' = nops + 1
    /\ UNCHANGED frame
    /\ setCourses(removeFilter(props, id))
    /\ addNotification(MsgRemoved, "success")
    /\ last' = Record("remove", id, Undefined, "ok",
                      << <<MsgRemoved, "success">> >>)

(***************************************************************************)
(* The Planner in use: the page opened on an empty slot, Planejamento      *)
(* chosen and on the page, and the events of the Planner's form and table  *)
(***************************************************************************)
NoOp(cs, score) ==
    [op |-> "init", id |-> NoId, arg |-> Undefined,
     result |-> "ok", notes |-> <<>>, before |-> cs, iraBefore |-> score,
     usedBefore |-> Ids(cs), seen |-> cs, stored |-> JSONstringify(cs),
     prev |-> [op |-> "none", id |-> NoId, result |-> "ok", before |-> cs]]

\* The application up on the collection cs with the section t on the page.
Started(cs, t) ==
    /\ courses = cs
    /\ ira = calcIRA(cs)
    /\ storage = JSONstringify(cs)
    /\ usedIds = Ids(cs)
    /\ nops = 0
    /\ last = NoOp(cs, calcIRA(cs))
    /\ props = IF t = "planejamento" THEN cs ELSE <<>>
    /\ notifications = <<>>
    /\ timers = <<>>
    /\ mounted = "yes"
    /\ tab = t
    /\ shown = t

Init ==
    \E i1 \in uuid({}) : \E i2 \in uuid({i1}) : \E i3 \in uuid({i1, i2}) :
        Started(seedData(i1, i2, i3), "planejamento")

\* update and remove are called with the id of a row of the table.
Next ==
    \/ \E i \in 1..Len(props), patch \in PatchSet : update(props[i].at.id, patch)
    \/ \E novo \in NovoSet : addCourse(novo)
    \/ \E i \in 1..Len(props) : remove(props[i].at.id)

Spec == Init /\ [][Next]_vars

\* The behaviours in which the three seed ids came out pairwise different.
InitDistinct ==
    /\ Init
    /\ Cardinality(Ids(courses)) = 3

SpecDistinct == InitDistinct /\ [][Next]_vars

(***************************************************************************)
(* The whole application: tabs, the exit of the section that leaves,       *)
(* toasts and their timers, the contact form                               *)
(***************************************************************************)
TabSet == {"home", "planejamento", "resumos", "portfolio", "contato"}

\* setTab(t).  The section on the page starts to leave, unless t is its tab:
\* then it is the present section again and is rendered as such.
setTab(t) ==
    /\ mounted = "yes"
    /\ t # tab
    /\ tab' = t
    /\ props' = IF t = "planejamento" /\ shown = "planejamento"
                THEN courses ELSE props
    /\ UNCHANGED <<courses, ira, storage, usedIds, nops, last, notifications,
                   timers, mounted, shown>>

\* The exit animation (0.25 s) ends: the leaving section is unmounted and the
\* section of the chosen tab is mounted (AnimatePresence mode="wait").
exitComplete ==
    /\ mounted = "yes"
    /\ shown # tab
    /\ shown' = tab
    /\ props' = IF tab = "planejamento" THEN courses ELSE <<>>
    /\ UNCHANGED <<courses, ira, storage, usedIds, nops, last, notifications,
                   timers, mounted, tab>>

\* The oldest timer fires: setNotifications(prev => prev.filter(n => n.id !== id))
\* and the render that follows.
timeout ==
    /\ mounted = "yes"
    /\ timers # <<>>
    /\ notifications' = SelectSeq(notifications, LAMBDA n : n.id # Head(timers))
    /\ timers' = Tail(timers)
    /\ rerender(courses)
    /\ UNCHANGED <<courses, ira, storage, usedIds, nops, mounted, tab, shown>>
    /\ last' = Record("timeout", Head(timers), Undefined, "ok", <<>>)

\* The user closes a toast; its timer stays pending.
removeNotification(id) ==
    /\ mounted = "yes"
    /\ notifications' = SelectSeq(notifications, LAMBDA n : n.id # id)
    /\ rerender(courses)
    /\ UNCHANGED <<courses, ira, storage, usedIds, nops, last, mounted, timers,
                   tab, shown>>

MsgFill == "Por favor, preencha todos os campos"
MsgEmail == "Por favor, insira um email válido"
MsgSent == "Mensagem enviada com sucesso! Em breve retornarei o contato."

\* Contato.handleSubmit on the form state formData
handleSubmit(formData) ==
    /\ mounted = "yes"
    /\ shown = "contato"
    /\ nops < MaxOps
    /\ nops' = nops + 1
    /\ UNCHANGED <<courses, ira, storage, usedIds, props, mounted, tab, shown>>
    /\ LET note ==
             IF \/ trim(chars(formData.nome)) = <<>>
                \/ trim(chars(formData.email)) = <<>>
                \/ trim(chars(formData.mensagem)) = <<>>
             THEN <<MsgFill, "error">>
             ELSE IF ~matchEmail(chars(formData.email))
             THEN <<MsgEmail, "error">>
             ELSE <<MsgSent, "success">>
       IN  /\ addNotification(note[1], note[2])
           /\ last' = Record("submit", NoId, formData,
                             IF note[2] = "error" THEN "rejected" ELSE "ok",
                             <<note>>)

FormSet ==
    { [nome |-> "", email |-> "", mensagem |-> ""],
      [nome |-> "Ana", email |-> "ana", mensagem |-> "oi"],
      [nome |-> "Ana", email |-> "a@b.co", mensagem |-> "oi"] }

UIPatchSet == {Patch("nota", <<9>>), Patch("ch", 0)}

UINovoSet ==
    { Course("a", "Fis", 32, <<>>, "2026.1", ACursar),
      Course("a", "Fis", 0, <<5>>, "2025.1", Cursada) }

\* The page opened on an empty slot: the seed, its ids pairwise different, and
\* the home tab.
InitUI ==
    /\ \E i1 \in uuid({}) : \E i2 \in uuid({i1}) : \E i3 \in uuid({i1, i2}) :
            Started(seedData(i1, i2, i3), "home")
    /\ Cardinality(Ids(courses)) = 3

NextUI ==
    \/ \E i \in 1..Len(props), patch \in UIPatchSet : update(props[i].at.id, patch)
    \/ \E novo \in UINovoSet : addCourse(novo)
    \/ \E i \in 1..Len(props) : remove(props[i].at.id)
    \/ \E t \in TabSet : setTab(t)
    \/ exitComplete
    \/ timeout
    \/ \E i \in 1..Len(notifications) : removeNotification(notifications[i].id)
    \/ \E formData \in FormSet : handleSubmit(formData)

SpecUI == InitUI /\ [][NextUI]_vars

(***************************************************************************)
(* Loading: the storage slot as it is found, then the first render         *)
(***************************************************************************)
StoredCollections ==
    { <<>>,
      << Course("a", "Fis", 32, <<9>>, "2025.2", Cursada),
         Course("b", "Fis", 64, <<>>, "2026.1", ACursar) >> }

\* A text written by something else: one record, its properties in another
\* order.
ForeignText ==
    ArrayText(<< << <<"nome", "Fis">>, <<"id", "a">>, <<"ch", 32>>,
                    <<"nota", <<9>>>>, <<"periodo", "2025.2">>,
                    <<"status", Cursada>> >> >>)

\* The same record with more properties: "2" and "1" written first, a
\* property named "keys" written last.
IndexedText ==
    ArrayText(<< << <<"2", 5>>, <<"1", 6>>, <<"id", "a">>, <<"nome", "Fis">>,
                    <<"ch", 32>>, <<"nota", <<9>>>>, <<"periodo", "2025.2">>,
                    <<"status", Cursada>>, <<"keys", 5>> >> >>)

\* What localStorage may hold under storeKey when the page opens.
SlotValues ==
    {NoItem, EmptyText, MalformedText, NullText, ForeignText, IndexedText}
        \cup {JSONstringify(cs) : cs \in StoredCollections}

NotMounted ==
    [op |-> "boot", id |-> NoId, arg |-> Undefined,
     result |-> "ok", notes |-> <<>>, before |-> <<>>, iraBefore |-> Zero,
     usedBefore |-> {}, seen |-> <<>>, stored |-> storage,
     prev |-> [op |-> "none", id |-> NoId, result |-> "ok", before |-> <<>>]]

\* useState's initializer, the first render (useMemo, the home tab) and the
\* effect.  raw ? JSON.parse(raw) : seedData, seedData again when that throws.
\* A value that is no array makes calcIRA throw in the first render
\* (courses.filter), which unmounts the application before any effect.
mount ==
    /\ mounted = "no"
    /\ UNCHANGED <<nops, notifications, timers, tab, shown>>
    /\ LET raw == storage
           truthy == raw.form \notin {"absent", "empty"}
           parsed == JSONparse(raw)
       IN  IF ~truthy \/ parsed.kind = "SyntaxError"
           THEN \E i1 \in uuid({}) : \E i2 \in uuid({i1}) : \E i3 \in uuid({i1, i2}) :
                /\ setCourses(seedData(i1, i2, i3))
                /\ mounted' = "yes"
                /\ last' = Record("mount", NoId, raw, "seed", <<>>)
           ELSE IF parsed.kind = "array"
           THEN /\ setCourses(parsed.value)
                /\ mounted' = "yes"
                /\ last' = Record("mount", NoId, raw, "restored", <<>>)
           ELSE /\ UNCHANGED <<courses, props, ira, storage, usedIds>>
                /\ mounted' = "crashed"
                /\ last' = Record("mount", NoId, raw, "crashed", <<>>)

InitLoad ==
    /\ storage \in SlotValues
    /\ courses = <<>>
    /\ props = <<>>
    /\ ira = Zero
    /\ usedIds = {}
    /\ nops = 0
    /\ notifications = <<>>
    /\ timers = <<>>
    /\ mounted = "no"
    /\ tab = "home"
    /\ shown = "home"
    /\ last = NotMounted

NextLoad ==
    \/ mount
    \/ NextUI

SpecLoad == InitLoad /\ [][NextLoad]_vars

(***************************************************************************)
(* The index calculator on arbitrary collections                           *)
(***************************************************************************)
IRACourse(status, nota, ch) == Course("a", "Fis", ch, nota, "2025.1", status)

IRARecords ==
    { IRACourse(Cursada, <<8>>, 64),
      IRACourse(Cursada, <<6>>, 64),
      IRACourse(Cursada, <<6>>, -64),
      IRACourse(Cursada, <<7>>, 0),
      IRACourse(EmAndamento, <<6>>, 32),
      IRACourse(EmAndamento, <<>>, 64),
      IRACourse(ACursar, <<>>, 32),
      IRACourse(ACursar, <<10>>, 64) }

IRAPlanned == {c \in IRARecords : c.at.status = ACursar /\ c.at.nota = <<>>}

\* The collection drawn is replaced by a reordering of itself and rendered.
reorder(p) ==
    /\ last.op = "init"
    /\ setCourses([i \in 1..Len(courses) |-> courses[p[i]]])
    /\ nops' = nops
    /\ UNCHANGED <<notifications, timers, mounted, tab, shown>>
    /\ last' = Record("permute", NoId, Undefined, "ok", <<>>)

\* The collection drawn gains a planned, ungraded record in front and is
\* rendered.
withPlanned(c) ==
    /\ last.op = "init"
    /\ Len(courses) < MaxIRALen
    /\ setCourses(<<c>> \o courses)
    /\ nops' = nops
    /\ UNCHANGED <<notifications, timers, mounted, tab, shown>>
    /\ last' = Record("planned", c.at.id, c, "ok", <<>>)

InitIRA ==
    \E n \in 0..MaxIRALen : \E cs \in [1..n -> IRARecords] :
        Started(cs, "planejamento")

NextIRA ==
    \/ \E p \in Permutations(1..Len(courses)) : reorder(p)
    \/ \E c \in IRAPlanned : withPlanned(c)

SpecIRA == InitIRA /\ [][NextIRA]_vars

(***************************************************************************)
(* The data-model rules, as the specification words them                   *)
(***************************************************************************)
NameEmpty(nome) == \A i \in 1..Len(chars(nome)) : chars(nome)[i] \in WhiteSpace

TermOK(periodo) ==
    /\ Len(chars(periodo)) = 6
    /\ SubSeq(chars(periodo), 1, 4) \in [1..4 -> Digits]
    /\ SubSeq(chars(periodo), 5, 6) \in {<<46, 49>>, <<46, 50>>}

GradeInRange(nota) == nota # <<>> /\ 0 <= nota[1] /\ nota[1] <= 10

\* An object with exactly the six properties of a course.
Complete(r) == DOMAIN r.at = Fields

\* The complete record old with the values of the patch where it has them.
Merge(old, patch) ==
    [keys |-> old.keys,
     at |-> [f \in DOMAIN old.at |->
                IF f \in DOMAIN patch.at THEN patch.at[f] ELSE old.at[f]]]

\* A complete record that breaks one of the four rules.
ViolatesRule(r) ==
    \/ NameEmpty(r.at.nome)
    \/ r.at.ch <= 0
    \/ r.at.status = Cursada /\ ~GradeInRange(r.at.nota)
    \/ ~TermOK(r.at.periodo)

\* The first position of id in cs (id is present).
IndexOf(cs, id) ==
    CHOOSE i \in 1..Len(cs) : cs[i].at.id = id /\ \A j \in 1..(i - 1) : cs[j].at.id # id

\* The number of positions of cs holding r.
Count(cs, r) == Cardinality({i \in 1..Len(cs) : cs[i] = r})

Range(cs) == {cs[i] : i \in 1..Len(cs)}

\* The record an add or update submits to validation: the draft, or the patch
\* over the existing record (over nothing when the id is absent).
Candidate(h) ==
    IF h.op = "add" THEN h.arg
    ELSE IF h.id \in Ids(h.before)
    THEN Merge(h.before[IndexOf(h.before, h.id)], h.arg)
    ELSE h.arg

SameRecords(cs, ds) ==
    \A r \in Range(cs) \cup Range(ds) : Count(cs, r) = Count(ds, r)

(***************************************************************************)
(* C1: a rejected add or update leaves the collection as it was            *)
(***************************************************************************)
\* C1: whenever an add or an update is rejected by validation, or the record it
\* validated (the draft, or the patch merged into the existing record) has an
\* empty trimmed name, creditHours <= 0, is Completed with the grade unset or
\* outside [0,10], or has a term not of the form YYYY.S, the collection after the
\* operation is the collection before it: same records, same values, same order.
C1_RejectedUnchanged ==
    ( /\ last.op \in {"add", "update"}
      /\ \/ last.result = "rejected"
         \/ Complete(Candidate(last)) /\ ViolatesRule(Candidate(last)) )
    => /\ courses = last.before
       /\ last.result = "rejected"

\* An update of a Completed record's grade 7 to 11 was rejected, and the record
\* still holds 7.
C1_Witness ==
    /\ last.op = "update"
    /\ last.arg = Patch("nota", <<11>>)
    /\ last.result = "rejected"
    /\ \E i \in 1..Len(last.before) :
        /\ last.before[i].at.id = last.id
        /\ last.before[i].at.status = Cursada
        /\ last.before[i].at.nota = <<7>>
        /\ courses[i].at.nota = <<7>>

(***************************************************************************)
(* C2: add assigns a fresh id and prepends                                 *)
(***************************************************************************)
\* C2: a successful add gives the new record an id that no record already in the
\* collection has, puts it at position 0 with the draft's other fields, leaves
\* the earlier records unchanged and in order after it, and grows the collection
\* by exactly one.
C2_AddFreshPrepends ==
    (last.op = "add" /\ last.result = "ok")
    => /\ last.id \notin Ids(last.before)
       /\ Len(courses) = Len(last.before) + 1
       /\ courses[1].at.id = last.id
       /\ \A f \in Fields \ {"id"} : courses[1].at[f] = last.arg.at[f]
       /\ \A i \in 1..Len(last.before) : courses[i + 1] = last.before[i]

(***************************************************************************)
(* C3: update of an absent id                                              *)
(***************************************************************************)
\* C3: an update whose id no record of the collection has ends with a not-found
\* outcome (not success, not a validation error, not an exception) and leaves
\* the collection unchanged, whatever the patch.
C3_UpdateMissingNotFound ==
    (last.op = "update" /\ last.id \notin Ids(last.before))
    => /\ last.result = "notfound"
       /\ courses = last.before

(***************************************************************************)
(* C4: update replaces one record in place                                 *)
(***************************************************************************)
\* C4: a successful update of an existing record replaces that record, at its
\* position, by the record with the patch's fields where the patch has them and
\* the old record's otherwise; every other record, the order and the length are
\* unchanged.
C4_UpdateInPlace ==
    (last.op = "update" /\ last.result = "ok" /\ last.id \in Ids(last.before))
    => LET i == IndexOf(last.before, last.id)
           old == last.before[i]
           merged == Merge(old, last.arg)
       IN  /\ Len(courses) = Len(last.before)
           /\ courses[i] = merged
           /\ \A j \in 1..Len(last.before) : j # i => courses[j] = last.before[j]

(***************************************************************************)
(* C5: remove deletes exactly the records with the id                      *)
(***************************************************************************)
\* C5: after remove(id) the collection is the earlier one without the records
\* whose id is the argument, the others unchanged and in their relative order;
\* with no such record the collection is unchanged; remove never produces an
\* error outcome.
C5_RemoveExact ==
    last.op = "remove"
    => LET kept == {i \in 1..Len(last.before) : last.before[i].at.id # last.id}
           nth(j) == CHOOSE i \in kept : Cardinality({k \in kept : k < i}) = j - 1
       IN  /\ Len(courses) = Cardinality(kept)
           /\ \A j \in 1..Len(courses) : courses[j] = last.before[nth(j)]
           /\ last.id \notin Ids(last.before) => courses = last.before
           /\ last.result = "ok"
           /\ \A n \in 1..Len(last.notes) : last.notes[n][2] # "error"

(***************************************************************************)
(* C6: add, then remove of the new id                                      *)
(***************************************************************************)
\* C6: a successful add followed at once by remove of the id the add gave the
\* new record yields a collection with exactly the records the collection had
\* before the add.
C6_AddRemoveRestores ==
    ( /\ last.op = "remove"
      /\ last.prev.op = "add"
      /\ last.prev.result = "ok"
      /\ last.id = last.prev.id )
    => SameRecords(courses, last.prev.before)

(***************************************************************************)
(* C7: every record satisfies the data-model rules                         *)
(***************************************************************************)
\* C7: from the seed collection, after any sequence of add, update and remove,
\* every record has a non-empty trimmed name, creditHours > 0, a term of four
\* digits, a dot and 1 or 2, and, if Completed, a grade that is set and in
\* [0,10].
C7_RecordsWellFormed ==
    \A i \in 1..Len(courses) :
        /\ Complete(courses[i])
        /\ ~ViolatesRule(courses[i])

\* A successful add was followed by a successful update of a record.
C7_Witness ==
    /\ last.op = "update"
    /\ last.result = "ok"
    /\ last.id \in Ids(last.before)
    /\ courses # last.before
    /\ last.prev.op = "add"
    /\ last.prev.result = "ok"

(***************************************************************************)
(* C8: every grade is unset or in [0,10]                                   *)
(***************************************************************************)
\* C8: in every reachable state the grade of every record, whatever its status,
\* is unset or a number in [0,10], and the weighted index is in [0,10].
C8_GradesInRange ==
    /\ \A i \in 1..Len(courses) :
        courses[i].at.nota = <<>> \/ GradeInRange(courses[i].at.nota)
    /\ 0 <= ira.num
    /\ ira.num <= 10 * ira.den

(***************************************************************************)
(* C9: ids are unique and never change                                     *)
(***************************************************************************)
\* C9: no two records of the collection have the same id; an update changes no
\* record's id; an add never assigns an id that a record holds or has held.
C9_IdsUniqueStable ==
    /\ \A i, j \in 1..Len(courses) : i # j => courses[i].at.id # courses[j].at.id
    /\ last.op = "update" =>
        /\ Len(courses) = Len(last.before)
        /\ \A i \in 1..Len(courses) : courses[i].at.id = last.before[i].at.id
    /\ (last.op = "add" /\ last.result = "ok") => last.id \notin last.usedBefore

(***************************************************************************)
(* C10: the weighted index                                                 *)
(***************************************************************************)
\* The sum of f[x] over the x in S.
RECURSIVE SumOver(_, _)
SumOver(S, f) ==
    IF S = {} THEN 0
    ELSE LET x == CHOOSE y \in S : TRUE IN f[x] + SumOver(S \ {x}, f)

\* C10: for every collection the index is sum(grade*creditHours) /
\* sum(creditHours) over exactly the records that are not Planned and have a
\* grade, and 0 when there is no such record or their credit hours sum to 0; it
\* is the same after any reordering of the records, and after a Planned
\* ungraded record is added.
C10_ScoreFormula ==
    LET Q == {i \in 1..Len(courses) :
                courses[i].at.status # ACursar /\ courses[i].at.nota # <<>>}
        w == [i \in Q |-> courses[i].at.nota[1] * courses[i].at.ch]
        h == [i \in Q |-> courses[i].at.ch]
        P == SumOver(Q, w)
        H == SumOver(Q, h)
    IN  /\ IF Q = {} \/ H = 0
           THEN ira.num = 0
           ELSE ira.num * H = P * ira.den
        /\ ira.den > 0
        /\ last.op \in {"permute", "planned"} => ira = last.iraBefore

\* A collection of three records whose order was changed: two graded ones
\* averaging (8*64 + 6*32)/96 = 22/3, and a planned one.
C10_Witness ==
    /\ last.op = "permute"
    /\ courses # last.before
    /\ Len(courses) = 3
    /\ \E i \in 1..3 : courses[i].at.status = ACursar
    /\ ira = [num |-> 22, den |-> 3]

(***************************************************************************)
(* C11: one message, that of the first violated rule                       *)
(***************************************************************************)
\* The message of the first rule, in the order name, creditHours,
\* Completed-grade, term, that the complete record r breaks.
FirstViolation(r) ==
    IF NameEmpty(r.at.nome) THEN MsgNome
    ELSE IF r.at.ch <= 0 THEN MsgCh
    ELSE IF r.at.status = Cursada /\ ~GradeInRange(r.at.nota) THEN MsgNota
    ELSE MsgPeriodo

\* C11: a rejected add or update produces exactly one notification, an error;
\* for a record that breaks some rule it is the message of the first rule broken
\* in the order name, creditHours, Completed-grade, term; the four messages
\* differ from one another; a record that breaks no rule produces no error
\* message.
C11_FirstViolationMessage ==
    /\ Cardinality({MsgNome, MsgCh, MsgNota, MsgPeriodo}) = 4
    /\ last.op \in {"add", "update"} =>
        LET c == Candidate(last) IN
        /\ last.result = "rejected" =>
            /\ Len(last.notes) = 1
            /\ last.notes[1][2] = "error"
            /\ last.notes[1][1] \in {MsgNome, MsgCh, MsgNota, MsgPeriodo}
        /\ (Complete(c) /\ ViolatesRule(c)) =>
            last.notes = << <<FirstViolation(c), "error">> >>
        /\ (Complete(c) /\ ~ViolatesRule(c)) =>
            \A n \in 1..Len(last.notes) : last.notes[n][2] # "error"

\* An add was rejected for a draft that breaks the Completed-grade rule and the
\* term rule, with the grade message alone.
C11_Witness ==
    /\ last.op = "add"
    /\ last.result = "rejected"
    /\ ~NameEmpty(last.arg.at.nome)
    /\ last.arg.at.ch > 0
    /\ last.arg.at.status = Cursada /\ ~GradeInRange(last.arg.at.nota)
    /\ ~TermOK(last.arg.at.periodo)
    /\ last.notes = << <<MsgNota, "error">> >>

(***************************************************************************)
(* C12: the stored snapshot follows the collection                         *)
(***************************************************************************)
\* C12: after a successful add, update or remove and its persisting effect, the
\* text in the storage slot parses to the in-memory collection, record for
\* record in the same order; after a rejected add or update the slot holds the
\* text it held before.
C12_SnapshotMatches ==
    last.op \in {"add", "update", "remove"} =>
        /\ last.result = "ok" =>
            JSONparse(storage) = [kind |-> "array", value |-> courses]
        /\ last.result = "rejected" => storage = last.stored

\* A successful add rewrote the slot: four records in memory, a new text that
\* parses to them.
C12_Witness ==
    /\ last.op = "add"
    /\ last.result = "ok"
    /\ Len(courses) = 4
    /\ courses[1] # courses[4]
    /\ storage # last.stored
    /\ JSONparse(storage).value = courses

(***************************************************************************)
(* C13: what the application starts from                                   *)
(***************************************************************************)
IsSeedSet(cs) == \E i1 \in Range(IdSpace), i2 \in Range(IdSpace), i3 \in Range(IdSpace) :
    cs = seedData(i1, i2, i3)

\* C13: once loaded, the collection is the parsed snapshot when the slot held a
\* text that parses, the three seed records when the slot was absent or its
\* text does not parse, and in every case the application is up with a
\* sequence of complete course records.
C13_LoadYieldsCollection ==
    last.op = "mount" =>
        LET raw == last.arg IN
        /\ JSONparse(raw).kind = "array" => courses = JSONparse(raw).value
        /\ (raw = NoItem \/ JSONparse(raw).kind = "SyntaxError") => IsSeedSet(courses)
        /\ mounted = "yes"
        /\ \A i \in 1..Len(courses) : Fields \subseteq DOMAIN courses[i].at

(***************************************************************************)
(* C14: no mutation is lost                                                *)
(***************************************************************************)
\* What the handler run h makes of the collection cs when it succeeds.
Applied(h, cs) ==
    IF h.op = "add" THEN <<Spread(h.arg, Patch("id", h.id))>> \o cs
    ELSE IF h.op = "update"
    THEN updateMap(cs, h.id, Spread(find(cs, h.id), h.arg))
    ELSE removeFilter(cs, h.id)

\* C14: every add, update or remove handler reads the collection as the
\* handlers before it left it, never an older rendering, and a successful one
\* leaves its own mutation applied to exactly that collection, so the
\* collection is the mutations applied one after another in invocation order;
\* a dismissal timer firing between handlers leaves the collection and the
\* score as they were.
C14_NoLostMutation ==
    /\ last.op \in {"add", "update", "remove"} =>
        /\ last.seen = last.before
        /\ last.result = "ok" => courses = Applied(last, last.before)
    /\ last.op = "timeout" =>
        /\ courses = last.before
        /\ ira = last.iraBefore

====
